---- MODULE Spec2Model ----
(***************************************************************************)
(* Result cache, precompute scheduler, cache-first routes and retry helper *)
(* of the GreenMap backend (src/index.js, lines 658-2824).                 *)
(*                                                                         *)
(* A cache key or URL is the string  path [-live] [?query]; it is kept as  *)
(* the record [path, live, qs] so that the string operations of the code   *)
(* (split('?')[0], replace(/-live$/, ''), concatenation) are computed.     *)
(* A JSON document returned by a live route is [url, d]: the live URL that *)
(* computed it and the upstream data it was computed from.  Documents are  *)
(* JSON objects, hence truthy in the tests  if (precomputed[key]).         *)
(*                                                                         *)
(* Spec        the routes and the scheduler, from an empty cache           *)
(* SpecRouter  the routes, from a cache that startup loaded from disk      *)
(* SpecSched   the scheduler, with failing disk writes                     *)
(* SpecExpiry  the routes under a clock                                    *)
(* SpecRetry   one call of withRetry                                       *)
(* SpecAdmin   the administrative trigger, the timers, the runs they start *)
(* SpecStore   saveCacheToDisk and loadCacheFromDisk step by step, restart *)
(* SpecLoad    loadCacheFromDisk on a directory a previous process left    *)
(* SpecEnc     the file-name encoding                                      *)
(* SpecLive    the -live routes                                            *)
(* SpecFaults  the routes and the scheduler with failing disk writes       *)
(* SpecHang    the scheduler under fairness, the upstream may never answer *)
(* SpecStartup the routes while loadCacheFromDisk runs at startup          *)
(* SpecRefresh the scheduler on a cache that startup loaded from disk      *)
(* SpecBoot    app.listen's callback: the load, then the startup run       *)
(* SpecFill    every writer of the in-memory cache, one per behaviour      *)
(* SpecRetryFair  one call of either retry helper, under fairness         *)
(***************************************************************************)
EXTENDS Integers, Sequences, FiniteSets, TLC

VARIABLES
  fetchFn,      \* TRUE iff a fetch implementation was found at load time
  precomputed,  \* the in-memory cache: key -> document or None
  disk,         \* cache directory, final files: key -> content or None
  tmp,          \* cache directory, temporary files: key -> content or None
  req,          \* the concurrent GET handlers of the cache-aware routes
  run,          \* the concurrent invocations of precomputeAll
  stored,       \* keys an on-demand computation has stored since startup
  nreq,         \* GET requests received so far
  nrun,         \* precomputeAll invocations the timers have started so far
  now,          \* the clock, in seconds
  created,      \* key -> the time its in-memory entry was written, or -1
  ticks,        \* clock advances so far
  rt,           \* one call of withRetry
  secret,       \* process.env.PRECOMP_SECRET; "" when it is not set
  adm,          \* the handler of POST /admin/precompute-run
  lv,           \* the handler of a GET of a -live route
  sv,           \* the calls of saveCacheToDisk in progress, step by step
  ld,           \* loadCacheFromDisk
  boots,        \* restarts of the process so far
  saved,        \* key -> what the last call of saveCacheToDisk that ended
                \* without error wrote for it, or None
  enc,          \* a pair of keys and what the file-name encoding makes of them
  diskErr       \* TRUE iff a disk operation of a call of saveCacheToDisk has
                \* failed (SpecStore)

\* the state of the cache, the routes, the scheduler and the retry helper
core ==
  <<fetchFn, precomputed, disk, tmp, req, run, stored, nreq, nrun, now, created, ticks, rt>>

\* the state of the administrative trigger, the -live routes, the durable
\* store step by step, and the file-name encoding
ext == <<secret, adm, lv, sv, ld, boots, saved, enc, diskErr>>

vars == <<core, ext>>

None == [none |-> TRUE]

\* ------------------------------------------------------------------ bounds
MaxRequests == 2  \* GET requests received in one behaviour
MaxStarts == 1    \* precomputeAll invocations the timers start in one behaviour
MaxRetries == 3   \* largest retries argument of withRetry
MaxTicks == 2     \* clock advances in one behaviour

Reqs == 1..MaxRequests   \* handlers: all the requests may be in progress at once
\* invocations: those the timers started and the one the administrative
\* handler awaits may all be in progress at once
Runs == 1..(MaxStarts + 1)
Data == {1, 2}           \* what the upstream service may compute for one URL

\* ------------------------------------------------------------ keys, URLs
Key(path, live, qs) == [path |-> path, live |-> live, qs |-> qs]

ChartQs == "?startYear=2020&endYear=2026"
WardQs == "?ward=Karen"

\* the registry (the first and the last entry of the nine)
PRECOMP_ENDPOINTS ==
  << Key("/wards", TRUE, ""),
     Key("/charttrend", TRUE, ChartQs) >>

NumEndpoints == Len(PRECOMP_ENDPOINTS)
Routes == 1..NumEndpoints

\* query strings a client may send to a wrapper route
QueryStrings == {"", ChartQs}

\* ep.split('?')[0].replace(/-live$/, '')
BasePath(ep) == Key(ep.path, FALSE, "")
\* basePath + qs
ExactKey(ep, qs) == Key(BasePath(ep).path, FALSE, qs)
\* `http://127.0.0.1:${PORT}${basePath}-live${qs}`
LiveUrl(ep, qs) == Key(BasePath(ep).path, TRUE, qs)
\* base + ep
PrecomputeUrl(ep) == ep

\* `/ward-trend?ward=${encodeURIComponent(wardName)}` and its live URL
WardTrendKey == Key("/ward-trend", FALSE, WardQs)
WardTrendLiveUrl == Key("/ward-trend", TRUE, WardQs)

Keys ==
  {PRECOMP_ENDPOINTS[i] : i \in Routes}
  \cup {ExactKey(PRECOMP_ENDPOINTS[i], q) : i \in Routes, q \in QueryStrings}
  \cup {WardTrendKey}

Doc(url, d) == [url |-> url, d |-> d]

\* the URL whose response is stored under key k
UrlOf(k) ==
  IF k = WardTrendKey THEN WardTrendLiveUrl
  ELSE IF k.live THEN PrecomputeUrl(k)
  ELSE Key(k.path, TRUE, k.qs)

\* outcomes of one fetch of a live route, as the caller sees them: an OK
\* response with a JSON body, a non-OK status, a rejected fetch, an OK
\* response whose body does not parse
Outcomes == {"ok", "nonok", "throw", "badjson"}

\* faulty variant: the body says nothing of the failure
Err_Blank(msg, details) == [error |-> "", details |-> ""]

Err(msg, details) == [error |-> msg, details |-> details]

\* ------------------------------------------------- durable cache store
\* fs.promises.writeFile(tmp, JSON.stringify(data)): the temporary file of key
WriteFile(files, key, data) == [files EXCEPT ![key] = data]

\* fs.promises.rename(tmp, dest) succeeds only when the temporary file exists
CanRename(key) == tmp[key] # None

\* ------------------------------------------------- cache-first routes
\* seenExact, seenDefault: the entries of the two keys when the request was
\* handled; prior: an on-demand computation had stored the exact key by then;
\* aged: the exact entry was at least TTL old by then; fetches: upstream
\* requests issued for this request
IdleReq ==
  [pc |-> "idle", route |-> 0, qs |-> "", key |-> None, url |-> None,
   status |-> 0, body |-> None, branch |-> "none", data |-> None,
   seenExact |-> None, seenDefault |-> None, fetches |-> 0, prior |-> FALSE,
   aged |-> FALSE]

\* the age a cache entry may reach before the spec calls it stale, in seconds
\* (the max-age the wrapper announces to clients)
TTL == 60

Aged(key) == created[key] >= 0 /\ now >= created[key] + TTL

\* handler r is the next one to serve an arriving request (handlers are
\* interchangeable: the lowest free one is taken)
FreeSlot(r) ==
  /\ nreq < MaxRequests
  /\ req[r].pc = "idle"
  /\ \A r2 \in Reqs : r2 < r => req[r2].pc # "idle"

\* faulty variants of the lookup: the exact key is not consulted, or only
\* after the default key
WrapperLookup_NoExact(cache, exactKey, defaultKey) ==
  IF cache[defaultKey] # None THEN "default" ELSE "miss"

WrapperLookup_DefaultFirst(cache, exactKey, defaultKey) ==
  IF cache[defaultKey] # None THEN "default"
  ELSE IF cache[exactKey] # None THEN "exact"
  ELSE "miss"

\* steps 3) and 4) of the wrapper: which entry, if any, answers the request
WrapperLookup(cache, exactKey, defaultKey) ==
  IF cache[exactKey] # None THEN "exact"
  ELSE IF cache[defaultKey] # None THEN "default"
  ELSE "miss"

\* step 1) of /ward-trend: only the exact key is looked up
WardTrendLookup(cache, cacheKey) ==
  IF cache[cacheKey] # None THEN "exact" ELSE "miss"

\* faulty variant: the result is stored under the registry key
StoreKey_Default(exactKey, defaultKey) == defaultKey

\* precomputed[exactKey] = data: the key an on-demand result is stored under
StoreKey(exactKey, defaultKey) == exactKey

Respond(rq, status, body, branch) ==
  [rq EXCEPT !.pc = "done", !.status = status, !.body = body, !.branch = branch]

\* faulty variant: single flight; a miss joins the computation another
\* handler has in flight for the same URL instead of issuing its own
AfterLookup_SingleFlight(rq, br, exactKey, defaultKey, liveUrl, errMsg) ==
  CASE br = "exact" -> Respond(rq, 200, precomputed[exactKey], "exact")
    [] br = "default" -> Respond(rq, 200, precomputed[defaultKey], "default")
    [] OTHER ->
         IF ~fetchFn
         THEN Respond(rq, 502, Err(errMsg, "fetch not available"), "error")
         ELSE IF \E r2 \in DOMAIN req : req[r2].pc = "fetch" /\ req[r2].url = liveUrl
         THEN [rq EXCEPT !.pc = "fetch", !.url = liveUrl]
         ELSE [rq EXCEPT !.pc = "fetch", !.url = liveUrl, !.fetches = @ + 1]

\* the handler after its lookup, up to its first await or its response
AfterLookup(rq, br, exactKey, defaultKey, liveUrl, errMsg) ==
  CASE br = "exact" -> Respond(rq, 200, precomputed[exactKey], "exact")
    [] br = "default" -> Respond(rq, 200, precomputed[defaultKey], "default")
    [] OTHER ->
         IF ~fetchFn
         THEN Respond(rq, 502, Err(errMsg, "fetch not available"), "error")
         ELSE [rq EXCEPT !.pc = "fetch", !.url = liveUrl, !.fetches = @ + 1]

\* app.get(basePath): a GET of wrapper route i with query string qs arrives
Handle(r, i, qs) ==
  /\ FreeSlot(r)
  /\ LET ep == PRECOMP_ENDPOINTS[i]
         exactKey == ExactKey(ep, qs)
         defaultKey == ep
         rq == [IdleReq EXCEPT !.route = i, !.qs = qs,
                  !.key = StoreKey(exactKey, defaultKey),
                  !.seenExact = precomputed[exactKey],
                  !.seenDefault = precomputed[defaultKey],
                  !.prior = (exactKey \in stored),
                  !.aged = Aged(exactKey)]
         br == WrapperLookup(precomputed, exactKey, defaultKey)
     IN req' = [req EXCEPT ![r] =
                  AfterLookup(rq, br, exactKey, defaultKey, LiveUrl(ep, qs),
                              "Failed to fetch data (live)")]
  /\ nreq' = nreq + 1
  /\ UNCHANGED <<ext, fetchFn, precomputed, disk, tmp, run, stored, nrun, now, created, ticks, rt>>

\* app.get('/ward-trend'): hasWard iff the request carries ?ward=
HandleWardTrend(r, hasWard) ==
  /\ FreeSlot(r)
  /\ LET rq == [IdleReq EXCEPT !.qs = IF hasWard THEN WardQs ELSE "",
                  !.key = IF hasWard THEN WardTrendKey ELSE None,
                  !.seenExact = IF hasWard THEN precomputed[WardTrendKey] ELSE None,
                  !.prior = hasWard /\ WardTrendKey \in stored,
                  !.aged = hasWard /\ Aged(WardTrendKey)]
         br == WardTrendLookup(precomputed, WardTrendKey)
     IN req' = [req EXCEPT ![r] =
                  IF ~hasWard
                  THEN Respond(rq, 400, Err("Missing ?ward= name", ""), "error")
                  ELSE AfterLookup(rq, br, WardTrendKey, WardTrendKey,
                                   WardTrendLiveUrl, "Ward trend wrapper error")]
  /\ nreq' = nreq + 1
  /\ UNCHANGED <<ext, fetchFn, precomputed, disk, tmp, run, stored, nrun, now, created, ticks, rt>>

ErrMsg(rq) ==
  IF rq.route = 0 THEN "Ward trend wrapper error" ELSE "Failed to fetch data (live)"

\* faulty variant: the error payload of a failed computation is cached
FetchReturn_CacheError(r, o, d) ==
  /\ req[r].pc = "fetch"
  /\ IF o = "ok"
     THEN LET data == Doc(req[r].url, d) IN
          /\ precomputed' = [precomputed EXCEPT ![req[r].key] = data]
          /\ created' = [created EXCEPT ![req[r].key] = now]
          /\ stored' = stored \cup {req[r].key}
          /\ req' = [req EXCEPT ![r].pc = "write", ![r].data = data]
     ELSE /\ req' = [req EXCEPT ![r] = Respond(@, 502, Err(ErrMsg(@), o), "error")]
          /\ precomputed' = [precomputed EXCEPT ![req[r].key] = Err(ErrMsg(req[r]), o)]
          /\ UNCHANGED <<created, stored>>
  /\ UNCHANGED <<ext, fetchFn, disk, tmp, run, nreq, nrun, now, ticks, rt>>

\* the awaited fetch of the live route settles and, when OK, its body is
\* parsed; a failure of either is caught and answered with 502
FetchReturn(r, o, d) ==
  /\ req[r].pc = "fetch"
  /\ IF o = "ok"
     THEN LET data == Doc(req[r].url, d) IN
          /\ precomputed' = [precomputed EXCEPT ![req[r].key] = data]
          /\ created' = [created EXCEPT ![req[r].key] = now]
          /\ stored' = stored \cup {req[r].key}
          /\ req' = [req EXCEPT ![r].pc = "write", ![r].data = data]
     ELSE /\ req' = [req EXCEPT ![r] = Respond(@, 502, Err(ErrMsg(@), o), "error")]
          /\ UNCHANGED <<precomputed, created, stored>>
  /\ UNCHANGED <<ext, fetchFn, disk, tmp, run, nreq, nrun, now, ticks, rt>>

\* faulty variant: the error of writeFile reaches the handler's catch
ReqWriteFile_Propagate(r, ok) ==
  /\ req[r].pc = "write"
  /\ IF ok
     THEN /\ tmp' = WriteFile(tmp, req[r].key, req[r].data)
          /\ req' = [req EXCEPT ![r].pc = "rename"]
     ELSE /\ req' = [req EXCEPT ![r] = Respond(@, 502, Err(ErrMsg(@), "disk"), "error")]
          /\ UNCHANGED tmp
  /\ UNCHANGED <<ext, fetchFn, precomputed, disk, run, stored, nreq, nrun, now, created, ticks, rt>>

\* saveCacheToDisk, to the end of writeFile; an error is caught and logged
ReqWriteFile(r, ok) ==
  /\ req[r].pc = "write"
  /\ IF ok
     THEN /\ tmp' = WriteFile(tmp, req[r].key, req[r].data)
          /\ req' = [req EXCEPT ![r].pc = "rename"]
     ELSE /\ req' = [req EXCEPT ![r] = Respond(@, 200, @.data, "live")]
          /\ UNCHANGED tmp
  /\ UNCHANGED <<ext, fetchFn, precomputed, disk, run, stored, nreq, nrun, now, created, ticks, rt>>

\* saveCacheToDisk, the rename; then the response is sent
ReqRename(r, ok) ==
  /\ req[r].pc = "rename"
  /\ IF ok /\ CanRename(req[r].key)
     THEN /\ disk' = [disk EXCEPT ![req[r].key] = tmp[req[r].key]]
          /\ tmp' = [tmp EXCEPT ![req[r].key] = None]
     ELSE UNCHANGED <<disk, tmp>>
  /\ req' = [req EXCEPT ![r] = Respond(@, 200, @.data, "live")]
  /\ UNCHANGED <<ext, fetchFn, precomputed, run, stored, nreq, nrun, now, created, ticks, rt>>

\* the response has been delivered; the handler is gone
ReqRecycle(r) ==
  /\ req[r].pc = "done"
  /\ req' = [req EXCEPT ![r] = IdleReq]
  /\ UNCHANGED <<ext, fetchFn, precomputed, disk, tmp, run, stored, nreq, nrun, now, created, ticks, rt>>

\* ------------------------------------------------- precompute scheduler
\* log: what the invocation has done so far: <<"start", i>> when the request
\* of entry i is issued, <<"ok", i>> or <<"fail", i>> when it has settled,
\* <<"nofetch", i>> when the try block threw before issuing it, <<"delay">>
\* when the pause has elapsed
IdleRun == [pc |-> "idle", i |-> 0, data |-> None, log |-> <<>>]

\* faulty variant: the request is issued but not awaited
EnterIteration_NoAwait(rn, i) ==
  IF i > NumEndpoints THEN [rn EXCEPT !.pc = "done", !.i = i]
  ELSE [rn EXCEPT !.pc = "delay", !.i = i, !.log = Append(@, <<"start", i>>)]

\* control reaches the head of the loop for entry i: the loop ends, or the try
\* block throws at once (no fetch), or the request is issued and awaited
EnterIteration(rn, i) ==
  IF i > NumEndpoints THEN [rn EXCEPT !.pc = "done", !.i = i]
  ELSE IF ~fetchFn
       THEN [rn EXCEPT !.pc = "delay", !.i = i, !.log = Append(@, <<"nofetch", i>>)]
       ELSE [rn EXCEPT !.pc = "fetch", !.i = i, !.log = Append(@, <<"start", i>>)]

\* for (const ep of PRECOMP_ENDPOINTS): the entry after entry i
NextEntry(i) == i + 1

\* if (!resp.ok) { console.warn(...); continue; }
OnNotOk(rn) == EnterIteration(rn, NextEntry(rn.i))

\* faulty variant: the error leaves the loop and rejects precomputeAll
OnError_Rethrow(rn) == [rn EXCEPT !.pc = "rejected"]

\* catch (err) { console.error(...) }, then on to the pause
OnError(rn) == [rn EXCEPT !.pc = "delay"]

\* faulty variant: mutual exclusion; precomputeAll is not entered while an
\* invocation is in progress
Admit_Exclusive(runs) == \A p \in DOMAIN runs : runs[p].pc = "idle"

\* precomputeAll keeps no record of invocations in progress and its callers
\* consult none: a call always enters the loop
Admit(runs) == TRUE

\* precomputeAll() is called by a timer: the startup timer or the cron job
StartRun(p) ==
  /\ nrun < MaxStarts
  /\ Admit(run)
  /\ run[p].pc = "idle"
  /\ \A p2 \in Runs : p2 < p => run[p2].pc # "idle"
  /\ run' = [run EXCEPT ![p] = EnterIteration(IdleRun, 1)]
  /\ nrun' = nrun + 1
  /\ UNCHANGED <<ext, fetchFn, precomputed, disk, tmp, req, stored, nreq, now, created, ticks, rt>>

\* faulty variant: a refresh that fails evicts the entry
RunFetchReturn_Evict(p, o, d) ==
  /\ run[p].pc = "fetch"
  /\ LET ep == PRECOMP_ENDPOINTS[run[p].i]
         ended == [run[p] EXCEPT
                     !.log = Append(@, <<IF o = "ok" THEN "ok" ELSE "fail", run[p].i>>)]
     IN CASE o = "ok" ->
               LET json == Doc(PrecomputeUrl(ep), d) IN
               /\ precomputed' = [precomputed EXCEPT ![ep] = json]
               /\ created' = [created EXCEPT ![ep] = now]
               /\ run' = [run EXCEPT ![p] = [ended EXCEPT !.pc = "write", !.data = json]]
          [] o = "nonok" ->
               /\ run' = [run EXCEPT ![p] = OnNotOk(ended)]
               /\ precomputed' = [precomputed EXCEPT ![ep] = None]
               /\ created' = [created EXCEPT ![ep] = -1]
          [] OTHER ->
               /\ run' = [run EXCEPT ![p] = OnError(ended)]
               /\ precomputed' = [precomputed EXCEPT ![ep] = None]
               /\ created' = [created EXCEPT ![ep] = -1]
  /\ UNCHANGED <<ext, fetchFn, disk, tmp, req, stored, nreq, nrun, now, ticks, rt>>

\* the awaited fetch of entry i settles and, when OK, its body is parsed
RunFetchReturn(p, o, d) ==
  /\ run[p].pc = "fetch"
  /\ LET ep == PRECOMP_ENDPOINTS[run[p].i]
         ended == [run[p] EXCEPT
                     !.log = Append(@, <<IF o = "ok" THEN "ok" ELSE "fail", run[p].i>>)]
     IN CASE o = "ok" ->
               LET json == Doc(PrecomputeUrl(ep), d) IN
               /\ precomputed' = [precomputed EXCEPT ![ep] = json]
               /\ created' = [created EXCEPT ![ep] = now]
               /\ run' = [run EXCEPT ![p] = [ended EXCEPT !.pc = "write", !.data = json]]
          [] o = "nonok" ->
               /\ run' = [run EXCEPT ![p] = OnNotOk(ended)]
               /\ UNCHANGED <<precomputed, created>>
          [] OTHER ->
               /\ run' = [run EXCEPT ![p] = OnError(ended)]
               /\ UNCHANGED <<precomputed, created>>
  /\ UNCHANGED <<ext, fetchFn, disk, tmp, req, stored, nreq, nrun, now, ticks, rt>>

\* faulty variant: the request has no time limit
FetchTimesOut_Never == FALSE

\* fetchFn(url, { timeout: 120000 }): the request is given up after a time
\* limit (node-fetch: the timeout option; the built-in fetch: its own limit
\* on the wait for the response)
FetchTimesOut == TRUE

\* the time limit of the request of entry i passes before any response: the
\* awaited fetch rejects, and the error is caught
RunFetchTimeout(p) ==
  /\ FetchTimesOut
  /\ run[p].pc = "fetch"
  /\ run' = [run EXCEPT ![p] =
               OnError([@ EXCEPT !.log = Append(@, <<"timeout", run[p].i>>)])]
  /\ UNCHANGED <<ext, fetchFn, precomputed, disk, tmp, req, stored, nreq, nrun, now, created, ticks, rt>>

\* saveCacheToDisk(ep, json), to the end of writeFile
RunWriteFile(p, ok) ==
  /\ run[p].pc = "write"
  /\ IF ok
     THEN /\ tmp' = WriteFile(tmp, PRECOMP_ENDPOINTS[run[p].i], run[p].data)
          /\ run' = [run EXCEPT ![p].pc = "rename"]
     ELSE /\ run' = [run EXCEPT ![p].pc = "delay", ![p].data = None]
          /\ UNCHANGED tmp
  /\ UNCHANGED <<ext, fetchFn, precomputed, disk, req, stored, nreq, nrun, now, created, ticks, rt>>

\* saveCacheToDisk(ep, json), the rename
RunRename(p, ok) ==
  /\ run[p].pc = "rename"
  /\ LET ep == PRECOMP_ENDPOINTS[run[p].i] IN
     IF ok /\ CanRename(ep)
     THEN /\ disk' = [disk EXCEPT ![ep] = tmp[ep]]
          /\ tmp' = [tmp EXCEPT ![ep] = None]
     ELSE UNCHANGED <<disk, tmp>>
  /\ run' = [run EXCEPT ![p].pc = "delay", ![p].data = None]
  /\ UNCHANGED <<ext, fetchFn, precomputed, req, stored, nreq, nrun, now, created, ticks, rt>>

\* await new Promise(r => setTimeout(r, 3000)) elapses
RunDelay(p) ==
  /\ run[p].pc = "delay"
  /\ run' = [run EXCEPT ![p] =
               EnterIteration([@ EXCEPT !.log = Append(@, <<"delay">>)], NextEntry(@.i))]
  /\ UNCHANGED <<ext, fetchFn, precomputed, disk, tmp, req, stored, nreq, nrun, now, created, ticks, rt>>

\* precomputeAll has returned; its caller goes on
RunRecycle(p) ==
  /\ run[p].pc = "done"
  /\ ~(adm.pc = "awaiting" /\ adm.p = p)
  /\ run' = [run EXCEPT ![p] = IdleRun]
  /\ UNCHANGED <<ext, fetchFn, precomputed, disk, tmp, req, stored, nreq, nrun, now, created, ticks, rt>>

\* ---------------------------------------------------------------- clock
\* time passes: by one second, or by the TTL
Tick(dt) ==
  /\ ticks < MaxTicks
  /\ now' = now + dt
  /\ ticks' = ticks + 1
  /\ UNCHANGED <<ext, fetchFn, precomputed, disk, tmp, req, run, stored, nreq, nrun, created, rt>>

\* --------------------------------------------------------- retry helper
\* withRetry(eeObject, retries, delayMs): attempt is the loop variable, calls
\* counts eeObject.getInfo(), outs are the outcomes of the attempts so far,
\* abandoned counts the calls whose timer fired and that are still running;
\* the result of attempt n is the value Info(n)
AttemptOutcomes == {"ok", "fail", "timeout"}

Info(n) == [info |-> n]
Undefined == [undefined |-> TRUE]

\* helper: which retry helper is called, the module's withRetry or the one
\* local to /indicators-live; obj: what the local helper is given: an Earth
\* Engine object ("ee"), a plain value, or null
IdleRetry ==
  [pc |-> "off", retries |-> 0, attempt |-> 0, calls |-> 0, outs |-> <<>>,
   abandoned |-> 0, result |-> None, error |-> None, helper |-> "withRetry",
   obj |-> "ee"]

\* the loop condition attempt <= retries
LoopGuard(attempt, retries) == attempt <= retries

\* faulty variant: the last failed attempt is followed by a delay, not a throw
HasMore_OffByOne(attempt, retries) == attempt <= retries

\* if (attempt < retries): another attempt follows the failed one
HasMore(attempt, retries) == attempt < retries

\* withRetry is entered: attempt = 1, then the loop condition
RetryLoopHead(rn) ==
  IF LoopGuard(rn.attempt, rn.retries)
  THEN [rn EXCEPT !.pc = "pending", !.calls = @ + 1]
  ELSE [rn EXCEPT !.pc = "returned", !.result = Undefined]

\* withTimeout(eeObject.getInfo(), 30000) settles: the call resolved first
\* ("ok"), rejected or threw first ("fail"), or the timer fired first
RetrySettle(o) ==
  /\ rt.helper = "withRetry"
  /\ rt.pc = "pending"
  /\ LET rn == [rt EXCEPT !.outs = Append(@, o),
                          !.abandoned = IF o = "timeout" THEN @ + 1 ELSE @] IN
     rt' = IF o = "ok"
           THEN [rn EXCEPT !.pc = "returned", !.result = Info(rn.attempt)]
           ELSE IF HasMore(rn.attempt, rn.retries)
                THEN [rn EXCEPT !.pc = "delay"]
                ELSE [rn EXCEPT !.pc = "threw", !.error = [err |-> o]]
  /\ UNCHANGED <<ext, fetchFn, precomputed, disk, tmp, req, run, stored, nreq, nrun, now, created, ticks>>

\* await new Promise(r => setTimeout(r, delayMs)) elapses; attempt++
RetryDelay ==
  /\ rt.helper = "withRetry"
  /\ rt.pc = "delay"
  /\ rt' = RetryLoopHead([rt EXCEPT !.attempt = @ + 1])
  /\ UNCHANGED <<ext, fetchFn, precomputed, disk, tmp, req, run, stored, nreq, nrun, now, created, ticks>>

\* a call whose timer had fired settles at last; nobody awaits it
RetryLateSettle ==
  /\ rt.abandoned > 0
  /\ rt' = [rt EXCEPT !.abandoned = @ - 1]
  /\ UNCHANGED <<ext, fetchFn, precomputed, disk, tmp, req, run, stored, nreq, nrun, now, created, ticks>>

\* the retry helper local to /indicators-live: withRetry(obj, attempts,
\* waitMs), here retries = attempts and attempt = i + 1
Null == [null |-> TRUE]
Plain == [plain |-> TRUE]
LocalObjs == {"ee", "value", "null"}

\* the helper is entered, or the loop condition i < attempts is reached: a
\* null object and a finished loop return null, a plain value is returned
\* as it is, an Earth Engine object is evaluated and the callback awaited
LocalLoopHead(rn) ==
  IF rn.obj = "null" THEN [rn EXCEPT !.pc = "returned", !.result = Null]
  ELSE IF ~(rn.attempt - 1 < rn.retries)
  THEN [rn EXCEPT !.pc = "returned", !.result = Null]
  ELSE IF rn.obj = "value" THEN [rn EXCEPT !.pc = "returned", !.result = Plain]
  ELSE [rn EXCEPT !.pc = "pending", !.calls = @ + 1]

\* the callback of evaluate or getInfo is called, with a value ("ok") or an
\* error ("fail"); nothing else ends the await
LocalSettle(o) ==
  /\ rt.helper = "local"
  /\ rt.pc = "pending"
  /\ o \in {"ok", "fail"}
  /\ LET rn == [rt EXCEPT !.outs = Append(@, o)] IN
     rt' = IF o = "ok"
           THEN [rn EXCEPT !.pc = "returned", !.result = Info(rn.attempt)]
           ELSE IF rn.attempt - 1 = rn.retries - 1
                THEN [rn EXCEPT !.pc = "threw", !.error = [err |-> o]]
                ELSE [rn EXCEPT !.pc = "delay"]
  /\ UNCHANGED <<ext, fetchFn, precomputed, disk, tmp, req, run, stored, nreq, nrun, now, created, ticks>>

\* await new Promise((r) => setTimeout(r, waitMs)) elapses; i++
LocalDelay ==
  /\ rt.helper = "local"
  /\ rt.pc = "delay"
  /\ rt' = LocalLoopHead([rt EXCEPT !.attempt = @ + 1])
  /\ UNCHANGED <<ext, fetchFn, precomputed, disk, tmp, req, run, stored, nreq, nrun, now, created, ticks>>

\* ------------------------------------------------ administrative trigger
\* the value the operators share; the environment may or may not have it in
\* PRECOMP_SECRET (secret = "" when the variable is unset or empty)
SecretValue == "s3cret"

\* req.headers['x-precomp-secret']: "" when the header is absent
Headers == {"", "wrong", SecretValue}

\* p: the invocation of precomputeAll the handler awaits; started: it has
\* called precomputeAll
IdleAdm == [pc |-> "idle", hdr |-> "", status |-> 0, p |-> 0, started |-> FALSE]

\* !(process.env.PRECOMP_SECRET && header !== process.env.PRECOMP_SECRET)
Authorized(env, hdr) == ~(env # "" /\ hdr # env)

\* app.post('/admin/precompute-run'): 401, or precomputeAll() up to its
\* first await, whatever invocations are in progress (were precomputeAll
\* exclusive, the request would be turned away: 409)
AdminTrigger(p, hdr) ==
  /\ adm.pc = "idle"
  /\ IF ~Authorized(secret, hdr)
     THEN /\ p = 1
          /\ adm' = [IdleAdm EXCEPT !.pc = "done", !.hdr = hdr, !.status = 401]
          /\ UNCHANGED run
     ELSE IF ~Admit(run)
     THEN /\ p = 1
          /\ adm' = [IdleAdm EXCEPT !.pc = "done", !.hdr = hdr, !.status = 409]
          /\ UNCHANGED run
     ELSE /\ run[p].pc = "idle"
          /\ \A p2 \in Runs : p2 < p => run[p2].pc # "idle"
          /\ run' = [run EXCEPT ![p] = EnterIteration(IdleRun, 1)]
          /\ adm' = [IdleAdm EXCEPT !.pc = "awaiting", !.hdr = hdr, !.p = p,
                                    !.started = TRUE]
  /\ UNCHANGED <<fetchFn, precomputed, disk, tmp, req, stored, nreq, nrun, now, created, ticks, rt>>
  /\ UNCHANGED <<secret, lv, sv, ld, boots, saved, enc, diskErr>>

\* await precomputeAll() settles: res.json({ ok: true, ... }), or 500 when it
\* rejected
AdminRespond ==
  /\ adm.pc = "awaiting"
  /\ run[adm.p].pc \in {"done", "rejected"}
  /\ adm' = [adm EXCEPT !.pc = "done",
                        !.status = IF run[adm.p].pc = "done" THEN 200 ELSE 500]
  /\ run' = [run EXCEPT ![adm.p] = IdleRun]
  /\ UNCHANGED <<fetchFn, precomputed, disk, tmp, req, stored, nreq, nrun, now, created, ticks, rt>>
  /\ UNCHANGED <<secret, lv, sv, ld, boots, saved, enc, diskErr>>

\* the response has been delivered; the handler is gone
AdminRecycle ==
  /\ adm.pc = "done"
  /\ adm' = IdleAdm
  /\ UNCHANGED <<core, secret, lv, sv, ld, boots, saved, enc, diskErr>>

\* ------------------------------------------------------- -live routes
\* the URLs of the -live routes: those of the registry with any query string,
\* and /ward-trend-live
LiveUrls ==
  {LiveUrl(PRECOMP_ENDPOINTS[i], q) : i \in Routes, q \in QueryStrings}
  \cup {WardTrendLiveUrl}

\* n: requests received so far; calls: computations started for this request
IdleLive ==
  [pc |-> "idle", url |-> None, status |-> 0, body |-> None, calls |-> 0, n |-> 0]

\* faulty variant: the result is also put into the in-memory cache
LiveStore_Cached(cache, url, data) ==
  [cache EXCEPT ![Key(url.path, FALSE, url.qs)] = data]

\* what a -live handler does to the in-memory cache when it has its result:
\* nothing
LiveStore(cache, url, data) == cache

\* app.get('/wards-live') and the like: the computation is built and started
LiveHandle(url) ==
  /\ lv.pc = "idle"
  /\ lv.n < MaxRequests
  /\ lv' = [IdleLive EXCEPT !.pc = "compute", !.url = url, !.calls = 1, !.n = lv.n + 1]
  /\ UNCHANGED <<core, secret, adm, sv, ld, boots, saved, enc, diskErr>>

\* the computation settles: res.json(data), or 500 with the error
LiveReturn(ok, d) ==
  /\ lv.pc = "compute"
  /\ LET data == Doc(lv.url, d) IN
     /\ lv' = IF ok THEN [lv EXCEPT !.pc = "done", !.status = 200, !.body = data]
              ELSE [lv EXCEPT !.pc = "done", !.status = 500,
                              !.body = Err("Failed to compute", "failed")]
     /\ precomputed' = IF ok THEN LiveStore(precomputed, lv.url, data) ELSE precomputed
  /\ UNCHANGED <<fetchFn, disk, tmp, req, run, stored, nreq, nrun, now, created, ticks, rt>>
  /\ UNCHANGED <<secret, adm, sv, ld, boots, saved, enc, diskErr>>

\* the response has been delivered; the handler is gone
LiveRecycle ==
  /\ lv.pc = "done"
  /\ lv' = [IdleLive EXCEPT !.n = lv.n]
  /\ UNCHANGED <<core, secret, adm, sv, ld, boots, saved, enc, diskErr>>

\* ------------------------------------- durable cache store, step by step
\* The routes and the scheduler above take saveCacheToDisk as two steps
\* (writeFile, rename).  Here writeFile is split at its own awaits: it opens
\* the temporary file for writing, which creates or truncates it, and then
\* writes the data through the descriptor it holds.  A descriptor follows its
\* file when the file is renamed.  File names are kept as the key they
\* encode and their extension (the encoding itself is SpecEnc).

\* a file that was opened for writing and not written yet: zero bytes
Empty == [empty |-> TRUE]
\* a file two calls wrote through their descriptors, of different lengths
Mixed == [mixed |-> TRUE]

\* JSON.parse(buf) returns a value: the content is one complete document
Parses(content) == content \notin {None, Empty, Mixed}

MaxSavers == 2     \* calls of saveCacheToDisk in progress at once
MaxRestarts == 1   \* restarts of the process in one behaviour

Savers == 1..MaxSavers

File(key, suffix) == [key |-> key, ext |-> suffix]

\* the key saved in SpecStore: a registry key, which overlapping runs of
\* precomputeAll save at once
SaveKeys == {PRECOMP_ENDPOINTS[1]}

\* the keys with files in the directory SpecLoad starts on
LoadKeys == {PRECOMP_ENDPOINTS[1], WardTrendKey}

\* the names readdir may return
FileNames == {File(k, e) : k \in Keys, e \in {".json", ".json.tmp"}}

\* at: where the file behind the call's descriptor is now: "tmp" (the
\* temporary path), "dest" (it was renamed into place), "gone" (replaced by
\* a later rename), "none" (no descriptor)
IdleSave == [pc |-> "idle", key |-> None, data |-> None, at |-> "none"]

\* clean: no in-memory entry was written since the load began; listed: the
\* result of readdir; todo: files of it not visited yet; log: the files
\* visited, in order, with what became of each; startup: the invocation of
\* precomputeAll the startup timer made, 0 before it fires
IdleLoad ==
  [pc |-> "off", listed |-> {}, todo |-> {}, log |-> <<>>, clean |-> TRUE,
   startup |-> 0]

\* fs.promises.readdir(CACHE_DIR)
Listing ==
  {File(k, ".json") : k \in {k2 \in Keys : disk[k2] # None}}
  \cup {File(k, ".json.tmp") : k \in {k2 \in Keys : tmp[k2] # None}}

\* precomputed[key] = data; saveCacheToDisk(key, data) up to its first await:
\* a handler or the scheduler has a result for key
SaveCall(s, key, d) ==
  /\ sv[s].pc = "idle"
  /\ \A s2 \in Savers : s2 < s => sv[s2].pc # "idle"
  /\ LET data == Doc(UrlOf(key), d) IN
     /\ precomputed' = [precomputed EXCEPT ![key] = data]
     /\ created' = [created EXCEPT ![key] = now]
     /\ sv' = [sv EXCEPT ![s] = [IdleSave EXCEPT !.pc = "open", !.key = key, !.data = data]]
  /\ ld' = [ld EXCEPT !.clean = FALSE]
  /\ UNCHANGED <<fetchFn, disk, tmp, req, run, stored, nreq, nrun, now, ticks, rt>>
  /\ UNCHANGED <<secret, adm, lv, boots, saved, enc, diskErr>>

\* writeFile(tmp, ...) opens the temporary file: created, or truncated when
\* it exists; an error (no directory, no space) is caught and logged
SaveOpen(s, ok) ==
  /\ sv[s].pc = "open"
  /\ IF ok
     THEN /\ tmp' = [tmp EXCEPT ![sv[s].key] = Empty]
          /\ sv' = [sv EXCEPT ![s].pc = "write", ![s].at = "tmp"]
          /\ UNCHANGED diskErr
     ELSE /\ sv' = [sv EXCEPT ![s] = IdleSave]
          /\ diskErr' = TRUE
          /\ UNCHANGED tmp
  /\ UNCHANGED <<fetchFn, precomputed, disk, req, run, stored, nreq, nrun, now, created, ticks, rt>>
  /\ UNCHANGED <<secret, adm, lv, ld, boots, saved, enc>>

\* what a file holds after data is written through a descriptor, from the
\* start of the file: data, or a mix when it held another document
\* (mixed: the two differ in length)
Written(content, data, mixed) ==
  IF content \in {Empty, data} THEN data
  ELSE IF mixed THEN Mixed ELSE data

\* writeFile writes the data and closes the descriptor
SaveWrite(s, mixed) ==
  /\ sv[s].pc = "write"
  /\ LET k == sv[s].key
         target == IF sv[s].at = "tmp" THEN tmp[k]
                   ELSE IF sv[s].at = "dest" THEN disk[k] ELSE None IN
     /\ mixed => target \notin {None, Empty, sv[s].data}
     /\ tmp' = IF sv[s].at = "tmp"
               THEN [tmp EXCEPT ![k] = Written(@, sv[s].data, mixed)] ELSE tmp
     /\ disk' = IF sv[s].at = "dest"
                THEN [disk EXCEPT ![k] = Written(@, sv[s].data, mixed)] ELSE disk
  /\ sv' = [sv EXCEPT ![s].pc = "rename", ![s].at = "none"]
  /\ UNCHANGED <<fetchFn, precomputed, req, run, stored, nreq, nrun, now, created, ticks, rt>>
  /\ UNCHANGED <<secret, adm, lv, ld, boots, saved, enc, diskErr>>

\* where a descriptor's file is after the temporary file of key was renamed
\* into place
AfterRename(c, key) ==
  IF c.key # key THEN c
  ELSE IF c.at = "tmp" THEN [c EXCEPT !.at = "dest"]
  ELSE IF c.at = "dest" THEN [c EXCEPT !.at = "gone"]
  ELSE c

\* rename(tmp, dest): fails when the temporary file is not there (another
\* call renamed it); the error is caught and logged.  The call ends.
SaveRename(s) ==
  /\ sv[s].pc = "rename"
  /\ LET k == sv[s].key IN
     IF CanRename(k)
     THEN /\ disk' = [disk EXCEPT ![k] = tmp[k]]
          /\ tmp' = [tmp EXCEPT ![k] = None]
          /\ sv' = [s2 \in Savers |->
                      IF s2 = s THEN IdleSave ELSE AfterRename(sv[s2], k)]
          /\ saved' = [saved EXCEPT ![k] = [data |-> sv[s].data, at |-> created[k]]]
          /\ UNCHANGED diskErr
     ELSE /\ sv' = [sv EXCEPT ![s] = IdleSave]
          /\ diskErr' = TRUE
          /\ UNCHANGED <<disk, tmp, saved>>
  /\ UNCHANGED <<fetchFn, precomputed, req, run, stored, nreq, nrun, now, created, ticks, rt>>
  /\ UNCHANGED <<secret, adm, lv, ld, boots, enc>>

\* the process ends (at any point) and is started again, some time later:
\* memory is lost, the cache directory is kept, app.listen's callback is due
Restart ==
  /\ boots < MaxRestarts
  /\ boots' = boots + 1
  /\ now' = now + 1
  /\ precomputed' = [k \in Keys |-> None]
  /\ created' = [k \in Keys |-> -1]
  /\ stored' = {}
  /\ req' = [r \in Reqs |-> IdleReq]
  /\ run' = [p \in Runs |-> IdleRun]
  /\ sv' = [s \in Savers |-> IdleSave]
  /\ ld' = [IdleLoad EXCEPT !.pc = "start"]
  /\ UNCHANGED <<fetchFn, disk, tmp, nreq, nrun, ticks, rt>>
  /\ UNCHANGED <<secret, adm, lv, saved, enc, diskErr>>

\* loadCacheFromDisk, to the end of readdir; an error of readdir is caught
\* (the function returns with nothing loaded)
LoadStart(ok) ==
  /\ ld.pc = "start"
  /\ ld' = IF ok THEN [ld EXCEPT !.pc = "files", !.listed = Listing, !.todo = Listing]
           ELSE [ld EXCEPT !.pc = "done"]
  /\ UNCHANGED <<core, secret, adm, lv, sv, boots, saved, enc, diskErr>>

\* faulty variant: the error of a file leaves loadCacheFromDisk
OnBadFile_Abort(l, f, why) ==
  [l EXCEPT !.pc = "rejected", !.log = Append(@, <<f, why>>)]

\* catch (e) { console.warn('Skipping invalid cache file', ...) }, and
\* continue for a name that does not end in .json: on to the next file
OnBadFile(l, f, why) ==
  [l EXCEPT !.todo = @ \ {f}, !.log = Append(@, <<f, why>>)]

\* one iteration of for (const f of files); readOk: readFile returns the
\* content (it throws when the file is gone, or cannot be read)
LoadFile(f, readOk) ==
  /\ ld.pc = "files"
  /\ f \in ld.todo
  /\ LET content == disk[f.key] IN
     IF f.ext # ".json"
     THEN /\ readOk
          /\ ld' = [ld EXCEPT !.todo = @ \ {f}, !.log = Append(@, <<f, "ignored">>)]
          /\ UNCHANGED <<precomputed, created>>
     ELSE IF ~readOk \/ content = None
     THEN /\ ld' = OnBadFile(ld, f, "unreadable")
          /\ UNCHANGED <<precomputed, created>>
     ELSE IF ~Parses(content)
     THEN /\ ld' = OnBadFile(ld, f, "invalid")
          /\ UNCHANGED <<precomputed, created>>
     ELSE /\ precomputed' = [precomputed EXCEPT ![f.key] = content]
          /\ created' = [created EXCEPT ![f.key] = now]
          /\ ld' = [ld EXCEPT !.todo = @ \ {f}, !.log = Append(@, <<f, "loaded">>)]
  /\ UNCHANGED <<fetchFn, disk, tmp, req, run, stored, nreq, nrun, now, ticks, rt>>
  /\ UNCHANGED <<secret, adm, lv, sv, boots, saved, enc, diskErr>>

\* the loop is over: loadCacheFromDisk returns
LoadEnd ==
  /\ ld.pc = "files"
  /\ ld.todo = {}
  /\ ld' = [ld EXCEPT !.pc = "done"]
  /\ UNCHANGED <<core, secret, adm, lv, sv, boots, saved, enc, diskErr>>

\* faulty variant: the timer is set when the callback is entered, the load
\* is not awaited
LoadAwaited_NotAwaited == ld.pc # "off"

\* await loadCacheFromDisk() has returned (with or without an error) when
\* app.listen's callback reaches setTimeout
LoadAwaited == ld.pc = "done"

\* setTimeout(() => precomputeAll()..., 2000) fires: the startup run, up to
\* its first await
StartupRun(p) ==
  /\ LoadAwaited
  /\ ld.startup = 0
  /\ Admit(run)
  /\ run[p].pc = "idle"
  /\ \A p2 \in Runs : p2 < p => run[p2].pc # "idle"
  /\ run' = [run EXCEPT ![p] = EnterIteration(IdleRun, 1)]
  /\ ld' = [ld EXCEPT !.startup = p]
  /\ UNCHANGED <<fetchFn, precomputed, disk, tmp, req, stored, nreq, nrun, now, created, ticks, rt>>
  /\ UNCHANGED <<secret, adm, lv, sv, boots, saved, enc, diskErr>>

\* --------------------------------------------------- file-name encoding
\* A key is a JavaScript string: here the sequence of its code points.  Keys
\* are made of a path and of req.url or encodeURIComponent output, so they
\* hold no unpaired surrogate.  A file name is its stem, the sequence of the
\* base64url digits (each digit is its index in the alphabet A-Z a-z 0-9 - _),
\* and its extension.
MaxKeyLen == 3   \* code points in a key

\* '/', '?', 'a', and a character beyond ASCII
Chars == {47, 63, 97, 233}

KeyStrings == UNION {[1..n -> Chars] : n \in 0..MaxKeyLen}

\* the UTF-8 bytes of one code point (up to U+FFFF)
Utf8(cp) ==
  IF cp < 128 THEN <<cp>>
  ELSE IF cp < 2048 THEN <<192 + (cp \div 64), 128 + (cp % 64)>>
  ELSE <<224 + (cp \div 4096), 128 + ((cp \div 64) % 64), 128 + (cp % 64)>>

\* Buffer.from(key): the UTF-8 bytes of the string
RECURSIVE Bytes(_)
Bytes(str) == IF str = <<>> THEN <<>> ELSE Utf8(Head(str)) \o Bytes(Tail(str))

\* faulty variant: the bytes after the last full group of three are dropped
RECURSIVE Base64Url_NoTail(_)
Base64Url_NoTail(b) ==
  IF Len(b) < 3 THEN <<>>
  ELSE << b[1] \div 4,
          (b[1] % 4) * 16 + (b[2] \div 16),
          (b[2] % 16) * 4 + (b[3] \div 64),
          b[3] % 64 >> \o Base64Url_NoTail(SubSeq(b, 4, Len(b)))

\* .toString('base64url'): four digits for three bytes, no padding
RECURSIVE Base64Url(_)
Base64Url(b) ==
  IF Len(b) = 0 THEN <<>>
  ELSE IF Len(b) = 1 THEN << b[1] \div 4, (b[1] % 4) * 16 >>
  ELSE IF Len(b) = 2
  THEN << b[1] \div 4, (b[1] % 4) * 16 + (b[2] \div 16), (b[2] % 16) * 4 >>
  ELSE << b[1] \div 4,
          (b[1] % 4) * 16 + (b[2] \div 16),
          (b[2] % 16) * 4 + (b[3] \div 64),
          b[3] % 64 >> \o Base64Url(SubSeq(b, 4, Len(b)))

\* Buffer.from(key).toString('base64url') + '.json'
safeKeyToFile(key) == [stem |-> Base64Url(Bytes(key)), ext |-> ".json"]

\* Buffer.from(stem, 'base64url'): three bytes for four digits; a final
\* group of two or three digits gives one or two bytes
RECURSIVE FromBase64Url(_)
FromBase64Url(x) ==
  IF Len(x) < 2 THEN <<>>
  ELSE IF Len(x) = 2 THEN << x[1] * 4 + (x[2] \div 16) >>
  ELSE IF Len(x) = 3
  THEN << x[1] * 4 + (x[2] \div 16), (x[2] % 16) * 16 + (x[3] \div 4) >>
  ELSE << x[1] * 4 + (x[2] \div 16),
          (x[2] % 16) * 16 + (x[3] \div 4),
          (x[3] % 4) * 64 + x[4] >> \o FromBase64Url(SubSeq(x, 5, Len(x)))

IsCont(b, i) == i <= Len(b) /\ b[i] >= 128 /\ b[i] < 192

\* .toString(): the string of the UTF-8 bytes; a byte that starts no valid
\* sequence becomes U+FFFD
RECURSIVE FromUtf8(_)
FromUtf8(b) ==
  IF b = <<>> THEN <<>>
  ELSE IF b[1] < 128 THEN <<b[1]>> \o FromUtf8(Tail(b))
  ELSE IF b[1] >= 194 /\ b[1] < 224 /\ IsCont(b, 2)
  THEN <<(b[1] - 192) * 64 + (b[2] - 128)>> \o FromUtf8(SubSeq(b, 3, Len(b)))
  ELSE IF b[1] >= 224 /\ b[1] < 240 /\ IsCont(b, 2) /\ IsCont(b, 3)
          /\ (b[1] - 224) * 4096 + (b[2] - 128) * 64 + (b[3] - 128) >= 2048
  THEN <<(b[1] - 224) * 4096 + (b[2] - 128) * 64 + (b[3] - 128)>>
       \o FromUtf8(SubSeq(b, 4, Len(b)))
  ELSE <<65533>> \o FromUtf8(Tail(b))

\* Buffer.from(f.replace(/\.json$/, ''), 'base64url').toString()
KeyOfFile(f) == FromUtf8(FromBase64Url(f.stem))

\* k1, k2: two keys; f1, f2: their file names; back: the key decoded from f1
IdleEnc == [pc |-> "off", k1 |-> <<>>, k2 |-> <<>>, f1 |-> None, f2 |-> None,
            back |-> <<>>]

\* saveCacheToDisk names the files of the two keys
EncNames ==
  /\ enc.pc = "keys"
  /\ enc' = [enc EXCEPT !.pc = "named", !.f1 = safeKeyToFile(enc.k1),
                        !.f2 = safeKeyToFile(enc.k2)]
  /\ UNCHANGED <<core, secret, adm, lv, sv, ld, boots, saved, diskErr>>

\* loadCacheFromDisk decodes the key of the first file
EncBack ==
  /\ enc.pc = "named"
  /\ enc.f1.ext = ".json"
  /\ enc' = [enc EXCEPT !.pc = "decoded", !.back = KeyOfFile(enc.f1)]
  /\ UNCHANGED <<core, secret, adm, lv, sv, ld, boots, saved, diskErr>>

\* ------------------------------------------------------- specifications
InitCache ==
  /\ fetchFn \in BOOLEAN
  /\ precomputed = [k \in Keys |-> None]
  /\ disk = [k \in Keys |-> None]
  /\ tmp = [k \in Keys |-> None]
  /\ req = [r \in Reqs |-> IdleReq]
  /\ run = [p \in Runs |-> IdleRun]
  /\ stored = {}
  /\ nreq = 0
  /\ nrun = 0
  /\ now = 0
  /\ created = [k \in Keys |-> -1]
  /\ ticks = 0

\* nothing but the cache, the routes and the scheduler is in use
InitExt ==
  /\ secret = ""
  /\ adm = IdleAdm
  /\ lv = IdleLive
  /\ sv = [s \in Savers |-> IdleSave]
  /\ ld = IdleLoad
  /\ boots = 0
  /\ saved = [k \in Keys |-> None]
  /\ enc = IdleEnc
  /\ diskErr = FALSE

Init ==
  /\ InitCache
  /\ rt = IdleRetry
  /\ InitExt

RequestStep ==
  \/ \E r \in Reqs, i \in Routes, qs \in QueryStrings : Handle(r, i, qs)
  \/ \E r \in Reqs, hasWard \in BOOLEAN : HandleWardTrend(r, hasWard)
  \/ \E r \in Reqs, o \in Outcomes, d \in Data : FetchReturn(r, o, d)
  \/ \E r \in Reqs : ReqWriteFile(r, TRUE)
  \/ \E r \in Reqs : ReqRename(r, TRUE)
  \/ \E r \in Reqs : ReqRecycle(r)

RunStep ==
  \/ \E p \in Runs : StartRun(p)
  \/ \E p \in Runs, o \in Outcomes, d \in Data : RunFetchReturn(p, o, d)
  \/ \E p \in Runs : RunWriteFile(p, TRUE)
  \/ \E p \in Runs : RunRename(p, TRUE)
  \/ \E p \in Runs : RunDelay(p)
  \/ \E p \in Runs : RunRecycle(p)

Next == RequestStep \/ RunStep

Spec == Init /\ [][Next]_vars

\* the process started on a cache directory that holds files a previous
\* process persisted for one of the routes (precomputeAll under the registry
\* key, the route under its exact keys), and loadCacheFromDisk has put them
\* into memory
RouteKeys(i) ==
  {PRECOMP_ENDPOINTS[i]} \cup {ExactKey(PRECOMP_ENDPOINTS[i], q) : q \in QueryStrings}

InitRouter ==
  /\ fetchFn \in BOOLEAN
  /\ \E i \in Routes : \E present \in SUBSET RouteKeys(i) :
       disk = [k \in Keys |-> IF k \in present THEN Doc(UrlOf(k), 1) ELSE None]
  /\ precomputed = disk
  /\ tmp = [k \in Keys |-> None]
  /\ req = [r \in Reqs |-> IdleReq]
  /\ run = [p \in Runs |-> IdleRun]
  /\ stored = {}
  /\ nreq = 0
  /\ nrun = 0
  /\ now = 0
  /\ created = [k \in Keys |-> IF disk[k] # None THEN 0 ELSE -1]
  /\ ticks = 0
  /\ rt = IdleRetry
  /\ InitExt

SpecRouter == InitRouter /\ [][RequestStep]_vars

\* the scheduler alone; a disk write may fail at writeFile or at rename
RunStepFaulty ==
  \/ RunStep
  \/ \E p \in Runs : RunWriteFile(p, FALSE)
  \/ \E p \in Runs : RunRename(p, FALSE)

SpecSched == Init /\ [][RunStepFaulty]_vars

\* the routes and the scheduler; a disk write may fail
ReqFaulty ==
  \/ RequestStep
  \/ \E r \in Reqs : ReqWriteFile(r, FALSE)
  \/ \E r \in Reqs : ReqRename(r, FALSE)

NextFaults == ReqFaulty \/ RunStepFaulty

\* a behaviour exercises the routes or the scheduler (they save under
\* different keys): the other side starts with its budget used up
InitFaults ==
  /\ fetchFn \in BOOLEAN
  /\ precomputed = [k \in Keys |-> None]
  /\ disk = [k \in Keys |-> None]
  /\ tmp = [k \in Keys |-> None]
  /\ req = [r \in Reqs |-> IdleReq]
  /\ run = [p \in Runs |-> IdleRun]
  /\ stored = {}
  /\ \/ nreq = 0 /\ nrun = MaxStarts
     \/ nreq = MaxRequests /\ nrun = 0
  /\ now = 0
  /\ created = [k \in Keys |-> -1]
  /\ ticks = 0
  /\ rt = IdleRetry
  /\ InitExt

SpecFaults == InitFaults /\ [][NextFaults]_vars

\* the scheduler under fairness: timers fire and disk operations end, but
\* the upstream need not ever answer a request
NextHang ==
  \/ RunStepFaulty
  \/ \E p \in Runs : RunFetchTimeout(p)

Progress(p) ==
  \/ RunFetchTimeout(p)
  \/ RunWriteFile(p, TRUE) \/ RunWriteFile(p, FALSE)
  \/ RunRename(p, TRUE) \/ RunRename(p, FALSE)
  \/ RunDelay(p)

SpecHang == Init /\ [][NextHang]_vars /\ \A p \in Runs : WF_vars(Progress(p))

\* the administrative trigger and the timers, in an environment with or
\* without the secret; the upstream answers every request, OK or not
InitAdmin ==
  /\ InitCache
  /\ rt = IdleRetry
  /\ secret \in {"", SecretValue}
  /\ adm = IdleAdm
  /\ lv = IdleLive
  /\ sv = [s \in Savers |-> IdleSave]
  /\ ld = IdleLoad
  /\ boots = 0
  /\ saved = [k \in Keys |-> None]
  /\ enc = IdleEnc
  /\ diskErr = FALSE

NextAdmin ==
  \/ \E p \in Runs, hdr \in Headers : AdminTrigger(p, hdr)
  \/ AdminRespond
  \/ AdminRecycle
  \/ \E p \in Runs : StartRun(p)
  \/ \E p \in Runs, o \in {"ok", "nonok"} : RunFetchReturn(p, o, 1)
  \/ \E p \in Runs : RunWriteFile(p, TRUE)
  \/ \E p \in Runs : RunRename(p, TRUE)
  \/ \E p \in Runs : RunDelay(p)
  \/ \E p \in Runs : RunRecycle(p)

SpecAdmin == InitAdmin /\ [][NextAdmin]_vars

\* saves, restarts and loads, step by step
NextStore ==
  \/ \E s \in Savers, k \in SaveKeys, d \in Data : SaveCall(s, k, d)
  \/ \E s \in Savers, ok \in BOOLEAN : SaveOpen(s, ok)
  \/ \E s \in Savers, mixed \in BOOLEAN : SaveWrite(s, mixed)
  \/ \E s \in Savers : SaveRename(s)
  \/ Restart
  \/ \E ok \in BOOLEAN : LoadStart(ok)
  \/ \E f \in FileNames, readOk \in BOOLEAN : LoadFile(f, readOk)
  \/ LoadEnd

SpecStore == Init /\ [][NextStore]_vars

\* the process has just started on a cache directory a previous process
\* left: per key a final file (complete, or empty) or none, and a temporary
\* file or none
InitLoad ==
  /\ fetchFn \in BOOLEAN
  /\ precomputed = [k \in Keys |-> None]
  /\ \E whole \in SUBSET LoadKeys, empty \in SUBSET LoadKeys :
       /\ whole \cap empty = {}
       /\ disk = [k \in Keys |-> IF k \in whole THEN Doc(UrlOf(k), 1)
                                 ELSE IF k \in empty THEN Empty ELSE None]
  /\ \E left \in SUBSET LoadKeys :
       tmp = [k \in Keys |-> IF k \in left THEN Doc(UrlOf(k), 1) ELSE None]
  /\ req = [r \in Reqs |-> IdleReq]
  /\ run = [p \in Runs |-> IdleRun]
  /\ stored = {}
  /\ nreq = 0
  /\ nrun = 0
  /\ now = 0
  /\ created = [k \in Keys |-> -1]
  /\ ticks = 0
  /\ rt = IdleRetry
  /\ secret = ""
  /\ adm = IdleAdm
  /\ lv = IdleLive
  /\ sv = [s \in Savers |-> IdleSave]
  /\ ld = [IdleLoad EXCEPT !.pc = "start"]
  /\ boots = 0
  /\ saved = [k \in Keys |-> None]
  /\ enc = IdleEnc
  /\ diskErr = FALSE

NextLoad ==
  \/ \E ok \in BOOLEAN : LoadStart(ok)
  \/ \E f \in FileNames, readOk \in BOOLEAN : LoadFile(f, readOk)
  \/ LoadEnd

SpecLoad == InitLoad /\ [][NextLoad]_vars

\* two keys go through the file-name encoding
InitEnc ==
  /\ InitCache
  /\ rt = IdleRetry
  /\ secret = ""
  /\ adm = IdleAdm
  /\ lv = IdleLive
  /\ sv = [s \in Savers |-> IdleSave]
  /\ ld = IdleLoad
  /\ boots = 0
  /\ saved = [k \in Keys |-> None]
  /\ \E a \in KeyStrings, b \in KeyStrings :
       enc = [IdleEnc EXCEPT !.pc = "keys", !.k1 = a, !.k2 = b]
  /\ diskErr = FALSE

NextEnc == EncNames \/ EncBack

SpecEnc == InitEnc /\ [][NextEnc]_vars

\* requests to the -live routes, the cache holding what startup loaded
NextLive ==
  \/ \E url \in LiveUrls : LiveHandle(url)
  \/ \E ok \in BOOLEAN, d \in Data : LiveReturn(ok, d)
  \/ LiveRecycle

SpecLive == InitRouter /\ [][NextLive]_vars

NextExpiry == RequestStep \/ (\E dt \in {1, TTL} : Tick(dt))

SpecExpiry == Init /\ [][NextExpiry]_vars

\* withRetry is called with any retries argument up to MaxRetries
InitRetry ==
  /\ InitCache
  /\ \E n \in 0..MaxRetries :
       rt = RetryLoopHead([IdleRetry EXCEPT !.retries = n, !.attempt = 1])
  /\ InitExt

NextRetry ==
  \/ \E o \in AttemptOutcomes : RetrySettle(o)
  \/ RetryDelay
  \/ RetryLateSettle

SpecRetry == InitRetry /\ [][NextRetry]_vars

\* app.listen's callback has just been entered: the server accepts requests
\* while loadCacheFromDisk reads the directory a previous process left
NextStartup == NextLoad \/ RequestStep

\* the directory holds complete files only, for some of LoadKeys
InitStartup ==
  /\ InitLoad
  /\ \A k \in Keys : tmp[k] = None /\ disk[k] # Empty

SpecStartup == InitStartup /\ [][NextStartup]_vars

\* the scheduler on a cache that startup loaded from disk; the upstream
\* may fail, and a request may reach its time limit
SpecRefresh == InitRouter /\ [][NextHang]_vars

\* app.listen's callback from its entry to the end of the startup run, on a
\* directory a previous process left
NextBoot ==
  \/ NextLoad
  \/ \E p \in Runs : StartupRun(p)
  \/ \E p \in Runs, o \in Outcomes, d \in Data : RunFetchReturn(p, o, d)
  \/ \E p \in Runs : RunWriteFile(p, TRUE)
  \/ \E p \in Runs : RunRename(p, TRUE)
  \/ \E p \in Runs : RunDelay(p)
  \/ \E p \in Runs : RunRecycle(p)

SpecBoot == InitLoad /\ [][NextBoot]_vars

\* the writers of the in-memory cache.  A behaviour exercises one of them:
\* the routes or the scheduler once startup is over (InitFaults), or
\* loadCacheFromDisk at startup, on a directory a previous process left
InitFill ==
  \/ InitFaults
  \/ /\ fetchFn \in BOOLEAN
     /\ precomputed = [k \in Keys |-> None]
     /\ \E whole \in SUBSET LoadKeys, empty \in SUBSET LoadKeys :
          /\ whole \cap empty = {}
          /\ disk = [k \in Keys |-> IF k \in whole THEN Doc(UrlOf(k), 1)
                                    ELSE IF k \in empty THEN Empty ELSE None]
     /\ \E left \in SUBSET LoadKeys :
          tmp = [k \in Keys |-> IF k \in left THEN Doc(UrlOf(k), 1) ELSE None]
     /\ req = [r \in Reqs |-> IdleReq]
     /\ run = [p \in Runs |-> IdleRun]
     /\ stored = {}
     /\ nreq = MaxRequests
     /\ nrun = MaxStarts
     /\ now = 0
     /\ created = [k \in Keys |-> -1]
     /\ ticks = 0
     /\ rt = IdleRetry
     /\ secret = ""
     /\ adm = IdleAdm
     /\ lv = IdleLive
     /\ sv = [s \in Savers |-> IdleSave]
     /\ ld = [IdleLoad EXCEPT !.pc = "start"]
     /\ boots = 0
     /\ saved = [k \in Keys |-> None]
     /\ enc = IdleEnc
     /\ diskErr = FALSE
  /\ diskErr = FALSE

NextFill == NextLoad \/ NextFaults

SpecFill == InitFill /\ [][NextFill]_vars

\* one call of either retry helper, under fairness: timers fire, but a
\* remote call need not ever settle
InitRetryFair ==
  /\ InitCache
  /\ \E n \in 0..MaxRetries :
       \/ rt = RetryLoopHead([IdleRetry EXCEPT !.retries = n, !.attempt = 1])
       \/ \E obj \in LocalObjs :
            rt = LocalLoopHead([IdleRetry EXCEPT !.retries = n, !.attempt = 1,
                                                !.helper = "local", !.obj = obj])
  /\ InitExt

NextRetryFair ==
  \/ NextRetry
  \/ \E o \in {"ok", "fail"} : LocalSettle(o)
  \/ LocalDelay

SpecRetryFair ==
  /\ InitRetryFair
  /\ [][NextRetryFair]_vars
  /\ WF_vars(RetrySettle("timeout"))
  /\ WF_vars(RetryDelay)
  /\ WF_vars(LocalDelay)

\* ================================================================ claims
\* the exact key and the live URL of the request a handler serves
OwnExactKey(q) ==
  IF q.route = 0 THEN WardTrendKey ELSE ExactKey(PRECOMP_ENDPOINTS[q.route], q.qs)

OwnLiveUrl(q) ==
  IF q.route = 0 THEN WardTrendLiveUrl ELSE LiveUrl(PRECOMP_ENDPOINTS[q.route], q.qs)

\* the query string of registry entry i: its default parameterization
DefaultQs(i) == PRECOMP_ENDPOINTS[i].qs

\* C1: Freshness. A request handled while the cache holds an entry for its
\* exact key is answered 200 with that entry's value, and no upstream request
\* is ever issued for it.
C1_Freshness ==
  \A r \in Reqs :
    (req[r].pc # "idle" /\ req[r].seenExact # None) =>
      /\ req[r].pc = "done"
      /\ req[r].status = 200
      /\ req[r].body = req[r].seenExact
      /\ req[r].fetches = 0

C1_Witness ==
  \E r \in Reqs :
    /\ req[r].pc = "done" /\ req[r].route \in Routes
    /\ req[r].seenExact # None /\ req[r].body = req[r].seenExact
    /\ req[r].fetches = 0

\* C2: Expiry. A lookup made when the exact key's entry is at least TTL old is
\* not answered from that entry: the computation is invoked again.
C2_Expiry ==
  \A r \in Reqs :
    (req[r].pc # "idle" /\ req[r].aged) =>
      (req[r].branch # "exact" /\ req[r].fetches >= 1)

\* C3: the default entry answers a request only when its query string is the
\* registry entry's; a request with another query string and no exact entry
\* is answered with a document computed for its own parameters.
C3_DefaultOnlyForDefaultParams ==
  \A r \in Reqs :
    (req[r].pc = "done" /\ req[r].route \in Routes) =>
      /\ req[r].branch = "default" => req[r].qs = DefaultQs(req[r].route)
      /\ (req[r].qs # DefaultQs(req[r].route) /\ req[r].seenExact = None
            /\ req[r].status = 200)
         => req[r].body.url = OwnLiveUrl(req[r])

\* C4: once precomputeAll has refreshed a registry entry (only precomputeAll
\* writes that key, so the entry is the latest refresh), a request of the
\* route with the default parameterization is answered with the refreshed
\* value.
C4_RefreshedServed ==
  \A r \in Reqs :
    (req[r].pc = "done" /\ req[r].route \in Routes
       /\ req[r].qs = DefaultQs(req[r].route) /\ req[r].seenDefault # None)
    => req[r].body = req[r].seenDefault

\* C5: a request that misses on both keys issues exactly one upstream request,
\* for its own parameters; when that succeeds the document is stored under the
\* exact key and returned with status 200; a request for the same key handled
\* after the store is answered from the exact entry with no upstream request.
C5_State ==
  \A r \in Reqs :
    LET q == req[r] IN
    /\ (q.pc \in {"fetch", "write", "rename"} \/ (q.pc = "done" /\ q.branch = "live"))
       => /\ q.seenExact = None /\ q.seenDefault = None
          /\ q.fetches = 1
          /\ q.url = OwnLiveUrl(q)
    /\ (q.pc # "idle" /\ q.status # 400 /\ fetchFn
          /\ q.seenExact = None /\ q.seenDefault = None)
       => q.fetches = 1
    /\ (q.pc = "done" /\ q.branch = "live")
       => /\ q.status = 200
          /\ q.body = q.data /\ q.body.url = OwnLiveUrl(q)
          /\ precomputed[OwnExactKey(q)] # None
    /\ q.prior
       => /\ q.pc = "done" /\ q.branch = "exact" /\ q.status = 200
          /\ q.fetches = 0 /\ q.body = q.seenExact

C5_Store ==
  \A r \in Reqs :
    (req[r].pc = "fetch" /\ req'[r].pc = "write")
    => precomputed'[OwnExactKey(req[r])] = req'[r].data

C5_OnDemand == []C5_State /\ [][C5_Store]_vars

C5_Witness ==
  \E r \in Reqs :
    /\ req[r].pc = "done" /\ req[r].prior /\ req[r].branch = "exact"
    /\ req[r].body.url = OwnLiveUrl(req[r])

\* C6: Lookup order. With entries under both keys the exact entry answers; the
\* default entry answers only when the exact key has none.
C6_LookupOrder ==
  \A r \in Reqs :
    req[r].pc = "done" =>
      /\ req[r].branch = "default" => req[r].seenExact = None
      /\ (req[r].seenExact # None /\ req[r].seenDefault # None)
         => (req[r].branch = "exact" /\ req[r].body = req[r].seenExact)

C6_Witness ==
  \E r \in Reqs :
    /\ req[r].pc = "done" /\ req[r].branch = "exact"
    /\ req[r].seenExact # None /\ req[r].seenDefault # None
    /\ req[r].seenExact # req[r].seenDefault
    /\ req[r].body = req[r].seenExact

\* the first attempt whose outcome is "ok", 0 when there is none
FirstOk(outs) ==
  IF \E n \in 1..Len(outs) : outs[n] = "ok"
  THEN CHOOSE n \in 1..Len(outs) :
         outs[n] = "ok" /\ \A m \in 1..(n - 1) : outs[m] # "ok"
  ELSE 0

\* C7: Retry bound. With retries = N >= 1, getInfo is called min(N, k) times,
\* k the first attempt that succeeds in time: a success returns that attempt's
\* result with no further call, and N failures or timeouts make withRetry
\* throw after exactly N calls.
C7_RetryBound ==
  LET N == rt.retries
      k == FirstOk(rt.outs)
  IN N >= 1 =>
       /\ rt.calls <= N
       /\ rt.pc = "pending" => (k = 0 /\ rt.calls = Len(rt.outs) + 1)
       /\ rt.pc = "delay" => (k = 0 /\ rt.calls = Len(rt.outs) /\ rt.calls < N)
       /\ rt.pc = "returned"
          => (k # 0 /\ k = Len(rt.outs) /\ rt.calls = k /\ rt.result = Info(k))
       /\ rt.pc = "threw" => (k = 0 /\ rt.calls = N /\ Len(rt.outs) = N)

C7_Witness ==
  /\ rt.pc = "threw" /\ rt.retries >= 2 /\ rt.calls = rt.retries
  /\ \E n \in 1..Len(rt.outs) : rt.outs[n] = "timeout"

\* entry i was attempted: its request was issued, or its try block was entered
\* and threw before the request
Attempted(log, i) ==
  \E n \in 1..Len(log) : log[n] = <<"start", i>> \/ log[n] = <<"nofetch", i>>

C8_State ==
  \A p \in Runs :
    /\ run[p].pc # "rejected"
    /\ run[p].pc = "done" => \A i \in Routes : Attempted(run[p].log, i)

C8_Cached ==
  \A p \in Runs :
    (run[p].pc = "fetch" /\ run'[p].pc = "write")
    => /\ run'[p].data # None
       /\ precomputed'[PRECOMP_ENDPOINTS[run[p].i]] = run'[p].data

\* C8: Scheduler isolation. precomputeAll never rejects; when it has returned
\* every registry entry was attempted, whatever failed before it; and every
\* entry whose request succeeded was cached.
C8_Isolation == []C8_State /\ [][C8_Cached]_vars

C8_Witness ==
  \E p \in Runs :
    /\ run[p].pc = "done"
    /\ \E n \in 1..Len(run[p].log), m \in 1..Len(run[p].log) :
         /\ n < m
         /\ run[p].log[n][1] = "fail"
         /\ run[p].log[m][1] = "ok"
         /\ precomputed[PRECOMP_ENDPOINTS[run[p].log[m][2]]] # None

IsStart(e) == e[1] = "start"
IsSettle(e) == e[1] = "ok" \/ e[1] = "fail"

\* C9: within one invocation the k-th request issued is that of entry k, and a
\* request is issued only after every earlier request of the invocation has
\* settled: at most one is in flight.
C9_Sequential ==
  \A p \in Runs :
    LET log == run[p].log
        starts == {n \in 1..Len(log) : IsStart(log[n])}
        settles == {n \in 1..Len(log) : IsSettle(log[n])}
    IN /\ \A n \in starts :
            /\ log[n][2] = 1 + Cardinality({m \in starts : m < n})
            /\ \A m \in starts : m < n =>
                 \E j \in settles : m < j /\ j < n /\ log[j][2] = log[m][2]
       /\ Cardinality(starts) - Cardinality(settles) \in {0, 1}

C9_Witness ==
  \E p \in Runs :
    \E n \in 1..Len(run[p].log) :
      /\ run[p].log[n] = <<"start", 2>>
      /\ \E m \in 1..(n - 1) : run[p].log[m] = <<"fail", 1>>

\* C10: Pacing. Every request of an invocation but its first is issued right
\* after a pacing delay has elapsed, whatever the outcome of the request before.
C10_Pacing ==
  \A p \in Runs :
    \A n \in 2..Len(run[p].log) :
      IsStart(run[p].log[n]) => run[p].log[n - 1] = <<"delay">>

\* C11: a request to the administrative trigger that does not carry the
\* pre-shared secret value is answered 401 and starts no run of precomputeAll,
\* whether or not the environment has PRECOMP_SECRET set.
C11_AdminAuth ==
  (adm.pc # "idle" /\ adm.hdr # SecretValue)
  => (adm.pc = "done" /\ adm.status = 401 /\ ~adm.started)

\* the in-memory entry of key k has the value and the creation time (hence
\* the expiry) that the last successful save of k wrote
RoundTrips(k) ==
  /\ precomputed[k] = saved[k].data
  /\ created[k] = saved[k].at

InLog(log, e) == \E n \in 1..Len(log) : log[n] = e

\* C12: Durability round-trip. After a restart and a load that could read the
\* file of a key, the in-memory entry of every key a save has written without
\* error has the saved value and the saved expiry.
C12_RoundTrip ==
  (ld.pc = "done" /\ ld.clean)
  => \A k \in Keys :
       (/\ saved[k] # None
        /\ File(k, ".json") \in ld.listed
        /\ ~InLog(ld.log, <<File(k, ".json"), "unreadable">>))
       => RoundTrips(k)

\* C13: the file-name encoding is reversible and collision-free: the key
\* decoded from the file name of a key is that key, and two different keys
\* have different file names.
C13_Encoding ==
  /\ enc.pc = "decoded" => enc.back = enc.k1
  /\ (enc.pc \in {"named", "decoded"} /\ enc.k1 # enc.k2) => enc.f1 # enc.f2

C13_Witness ==
  /\ enc.pc = "decoded"
  /\ enc.k1 # enc.k2
  /\ Len(enc.k1) = MaxKeyLen
  /\ \E n \in 1..Len(enc.k1) : enc.k1[n] >= 128
  /\ Len(enc.f1.stem) % 4 # 0
  /\ enc.back = enc.k1

\* C14: Atomic write. At every moment the file at the final location of a key
\* is absent or holds one complete value that a save wrote for the key, also
\* when saves of the same key overlap.
C14_AtomicWrite ==
  \A k \in Keys :
    disk[k] = None \/ disk[k] \in {Doc(UrlOf(k), d) : d \in Data}

\* handler r has answered a request that missed on both keys and whose
\* on-demand computation failed (or could not be started)
FailedMiss(q) ==
  /\ q.pc = "done"
  /\ q.branch = "error"
  /\ q.key # None

C15_State ==
  \A r \in Reqs :
    FailedMiss(req[r])
    => /\ req[r].seenExact = None
       /\ req[r].status >= 400
       /\ req[r].body = [error |-> ErrMsg(req[r]), details |-> req[r].body.details]
       /\ req[r].body.details # ""
       /\ req[r].data = None

C15_Frame ==
  \A r \in Reqs :
    (req[r].pc # "done" /\ FailedMiss(req'[r]))
    => UNCHANGED <<precomputed, disk, tmp>>

\* C15: a miss on both keys whose on-demand computation fails is answered
\* with an error status and a body that carries the failure message, never
\* with a success, and the step leaves the in-memory cache and the cache
\* directory as they were.
C15_MissFailure == []C15_State /\ [][C15_Frame]_vars

C15_Witness ==
  \E r \in Reqs :
    /\ FailedMiss(req[r])
    /\ req[r].fetches = 1
    /\ req[r].seenDefault = None
    /\ req[r].status = 502
    /\ precomputed[req[r].key] = None
    /\ disk[req[r].key] = None

C16_State ==
  /\ \A r \in Reqs :
       (req[r].pc = "done" /\ req[r].data # None)
       => (req[r].status = 200 /\ req[r].body = req[r].data)
  /\ \A p \in Runs : run[p].pc # "rejected"

C16_Step ==
  /\ \A r \in Reqs :
       (req[r].pc \in {"write", "rename"} /\ req'[r] # req[r])
       => /\ req'[r].pc \in {"rename", "done"}
          /\ req'[r].data = req[r].data
          /\ precomputed' = precomputed
  /\ \A p \in Runs :
       (run[p].pc \in {"write", "rename"} /\ run'[p] # run[p])
       => /\ run'[p].pc \in {"rename", "delay"}
          /\ run'[p].i = run[p].i
          /\ precomputed' = precomputed

\* C16: a failure of the durable write stays inside saveCacheToDisk: the
\* request is answered 200 with the computed value, the scheduler goes on to
\* its pause, and the in-memory entry stays in place.
C16_SaveFailure == []C16_State /\ [][C16_Step]_vars

\* a request answered with its value, and a run gone on, although the file
\* was not written
C16_Witness ==
  \/ \E r \in Reqs :
       /\ req[r].pc = "done" /\ req[r].status = 200 /\ req[r].body = req[r].data
       /\ req[r].data # None
       /\ precomputed[req[r].key] = req[r].data
       /\ disk[req[r].key] = None
       /\ nreq = 1
  \/ \E p \in Runs :
       /\ run[p].pc = "done"
       /\ \E i \in Routes :
            /\ InLog(run[p].log, <<"ok", i>>)
            /\ precomputed[PRECOMP_ENDPOINTS[i]] # None
            /\ disk[PRECOMP_ENDPOINTS[i]] = None

\* C17: loadCacheFromDisk skips a file that cannot be read or parsed and a
\* file whose name does not end in .json: no in-memory entry comes of it, the
\* other files are still visited, and the function does not reject.
C17_LoadSkips ==
  /\ ld.pc # "rejected"
  /\ (ld.pc = "done" /\ ld.listed # {})
     => \A f \in ld.listed : \E n \in 1..Len(ld.log) : ld.log[n][1] = f
  /\ \A k \in Keys :
       precomputed[k] # None
       => /\ InLog(ld.log, <<File(k, ".json"), "loaded">>)
          /\ Parses(disk[k])
          /\ precomputed[k] = disk[k]
  /\ \A n \in 1..Len(ld.log) :
       (ld.log[n][1].ext = ".json" /\ ld.log[n][2] # "loaded")
       => precomputed[ld.log[n][1].key] = None

C17_Witness ==
  /\ ld.pc = "done"
  /\ \E n \in 1..Len(ld.log), m \in 1..Len(ld.log), j \in 1..Len(ld.log) :
       /\ n < m /\ j < m
       /\ ld.log[n][2] = "invalid"
       /\ ld.log[j][2] = "ignored"
       /\ ld.log[m][2] = "loaded"
       /\ precomputed[ld.log[m][1].key] # None

C18_State ==
  lv.pc = "done"
  => /\ lv.calls = 1
     /\ lv.status = 200 => lv.body.url = lv.url

C18_Frame == UNCHANGED <<precomputed, disk, tmp, created, stored>>

\* C18: a -live route neither reads nor writes the cache: every request to it
\* starts the computation, its answer is the computed value, and every step
\* of it leaves the in-memory cache and the cache directory as they were.
C18_LiveBypass == []C18_State /\ [][C18_Frame]_vars

\* a -live answer that differs from the entry the cache holds for the same
\* operation
C18_Witness ==
  /\ lv.pc = "done"
  /\ lv.status = 200
  /\ precomputed[Key(lv.url.path, FALSE, lv.url.qs)] # None
  /\ precomputed[Key(lv.url.path, FALSE, lv.url.qs)] # lv.body

\* C19: a run of precomputeAll that has started eventually returns, every
\* registry entry attempted, even when the upstream never answers a request.
C19_Terminates ==
  \A p \in Runs :
    (run[p].pc \notin {"idle", "done"})
    ~> (run[p].pc = "done" /\ \A i \in Routes : Attempted(run[p].log, i))

\* the request of the first entry was given up, and the run went on
C19_Witness ==
  \E p \in Runs :
    /\ run[p].pc = "done"
    /\ InLog(run[p].log, <<"timeout", 1>>)
    /\ InLog(run[p].log, <<"start", NumEndpoints>>)

\* C20: the response of an on-demand computation does not wait for the
\* durable write: no handler is at the write of its file with its response
\* unsent.
C20_Detached ==
  \A r \in Reqs :
    req[r].pc \in {"write", "rename"} => req[r].status # 0

\* C21: on an in-memory miss the handler consults the durable store before
\* it computes: a handler never sets out to compute (issues its upstream
\* request) for a key whose persisted file holds a valid document; it
\* promotes that document into memory and answers with it instead.
C21_DiskBeforeCompute ==
  [][\A r \in Reqs :
       (req[r].pc = "idle" /\ req'[r].pc = "fetch")
         => ~Parses(disk[req'[r].key])]_vars

\* C22: there is no single flight.  Every handler that missed (neither the
\* exact nor the default entry was there, fetch is available) issues its own
\* upstream request, whatever other handlers have in flight for the same
\* key, and answers with the result of its own computation; when a
\* computation completes its result replaces the entry of the key, so the
\* entry finally stored is that of the computation that completed last.
C22_State ==
  \A r \in Reqs :
    /\ (req[r].pc # "idle" /\ req[r].key # None /\ fetchFn
          /\ req[r].seenExact = None /\ req[r].seenDefault = None)
         => req[r].fetches = 1
    /\ (req[r].pc = "done" /\ req[r].branch = "live")
         => /\ req[r].body = req[r].data
            /\ req[r].body.url = req[r].url

C22_LastWins ==
  [][\A r \in Reqs :
       (req[r].pc = "fetch" /\ req'[r].pc = "write")
         => precomputed'[req[r].key] = req'[r].data]_vars

C22_NoSingleFlight == []C22_State /\ C22_LastWins

\* two handlers computed for the same key at once, got different results,
\* each answered with its own, and the entry is that of one of them
C22_Witness ==
  \E r1 \in Reqs, r2 \in Reqs :
    /\ r1 # r2
    /\ req[r1].pc = "done" /\ req[r1].branch = "live"
    /\ req[r2].pc = "done" /\ req[r2].branch = "live"
    /\ req[r1].key = req[r2].key
    /\ req[r1].seenExact = None /\ req[r2].seenExact = None
    /\ req[r1].body # req[r2].body
    /\ precomputed[req[r1].key] = req[r2].body

\* C23: precomputeAll has no mutual exclusion.  An authorized administrative
\* request is never turned away: it has entered precomputeAll, whatever
\* invocations are in progress; and an invocation that starts begins its
\* own traversal at the first registry entry and leaves the invocations in
\* progress as they are.
C23_State ==
  (adm.pc # "idle" /\ Authorized(secret, adm.hdr))
    => /\ adm.started
       /\ adm.status \in {0, 200, 500}
       /\ adm.pc = "awaiting" => run[adm.p].pc # "idle"

C23_Start ==
  [][\A p \in Runs :
       (run[p].pc = "idle" /\ run'[p].pc # "idle")
         => /\ run'[p] = EnterIteration(IdleRun, 1)
            /\ \A p2 \in Runs \ {p} : run'[p2] = run[p2]]_vars

C23_NoMutualExclusion == []C23_State /\ C23_Start

\* the trigger fired while a timer's run was past its first entry; now the
\* upstream requests of the two traversals are in flight at once, and no
\* pause of either run lies between their issue
C23_Witness ==
  \E p \in Runs :
    /\ adm.pc = "awaiting" /\ p # adm.p
    /\ run[p].pc = "fetch" /\ run[p].i = 2
    /\ run[adm.p].pc = "fetch" /\ run[adm.p].i = 1
    /\ run[adm.p].log = <<<<"start", 1>>>>
    /\ run[p].log[Len(run[p].log)] = <<"start", 2>>

\* what the cache-first route of entry i answers a request with query
\* string qs from cache, or None when it would compute
ServedBy(cache, i, qs) ==
  LET ep == PRECOMP_ENDPOINTS[i]
      br == WrapperLookup(cache, ExactKey(ep, qs), ep)
  IN CASE br = "exact" -> cache[ExactKey(ep, qs)]
       [] br = "default" -> cache[ep]
       [] OTHER -> None

\* C24: when the refresh of a registry entry fails during precomputeAll
\* (the request throws, times out, or is answered non-OK), the cached value
\* of that entry is left as it was, in memory and on disk, and the
\* cache-first route keeps answering with it.
C24_FailedRefreshKeeps ==
  [][\A p \in Runs :
       (run[p].pc = "fetch" /\ run'[p] # run[p] /\ run'[p].pc # "write")
         => LET i == run[p].i
                ep == PRECOMP_ENDPOINTS[i]
            IN /\ precomputed'[ep] = precomputed[ep]
               /\ disk'[ep] = disk[ep]
               /\ tmp'[ep] = tmp[ep]
               /\ \A qs \in QueryStrings :
                    /\ ServedBy(precomputed', i, qs) = ServedBy(precomputed, i, qs)
                    /\ (precomputed[ExactKey(ep, qs)] = None /\ precomputed[ep] # None)
                         => ServedBy(precomputed', i, qs) = precomputed[ep]]_vars

\* the refresh of an entry has failed and the value loaded at startup for
\* it is still in memory and on disk
C24_Witness ==
  \E p \in Runs, i \in Routes :
    /\ InLog(run[p].log, <<"fail", i>>)
    /\ ~InLog(run[p].log, <<"ok", i>>)
    /\ precomputed[PRECOMP_ENDPOINTS[i]] = Doc(PrecomputeUrl(PRECOMP_ENDPOINTS[i]), 1)
    /\ disk[PRECOMP_ENDPOINTS[i]] = precomputed[PRECOMP_ENDPOINTS[i]]
    /\ ServedBy(precomputed, i, "") = precomputed[PRECOMP_ENDPOINTS[i]]

\* C25: the startup order is fixed.  The startup invocation of precomputeAll
\* is made only after the server listens and loadCacheFromDisk has run to
\* its end; the loader visits no file once the startup run has begun, so
\* no value it loads can replace one the startup run wrote.
C25_State ==
  /\ ld.startup # 0 => ld.pc = "done"
  /\ \A p \in Runs : run[p].pc # "idle" => (p = ld.startup /\ ld.pc = "done")

C25_LoadBefore ==
  [][ld'.log # ld.log => (ld.startup = 0 /\ \A p \in Runs : run[p].log = <<>>)]_vars

C25_StartupOrder == []C25_State /\ C25_LoadBefore

\* the loader had put the persisted value of the first registry entry into
\* memory; the startup run has replaced it, in memory and on disk
C25_Witness ==
  /\ ld.startup # 0
  /\ InLog(ld.log, <<File(PRECOMP_ENDPOINTS[1], ".json"), "loaded">>)
  /\ InLog(run[ld.startup].log, <<"ok", 1>>)
  /\ precomputed[PRECOMP_ENDPOINTS[1]] = Doc(PrecomputeUrl(PRECOMP_ENDPOINTS[1]), 2)
  /\ disk[PRECOMP_ENDPOINTS[1]] = precomputed[PRECOMP_ENDPOINTS[1]]

\* a JSON document a live route computed (not an error payload, not the
\* content of a broken file)
IsDoc(v) == DOMAIN v = DOMAIN Doc(None, 0)

\* C26: every value of the in-memory cache is a document that
\* loadCacheFromDisk read from the persisted file of its key, or the parsed
\* body of an OK response a handler or the scheduler awaited; the error
\* payload of a failed computation is never cached.
C26_State ==
  \A k \in Keys : precomputed[k] # None => IsDoc(precomputed[k])

C26_Provenance ==
  [][\A k \in Keys :
       precomputed'[k] # precomputed[k]
         => \/ /\ ld'.log = Append(ld.log, <<File(k, ".json"), "loaded">>)
               /\ precomputed'[k] = disk[k]
               /\ Parses(disk[k])
            \/ \E r \in Reqs :
                 /\ req[r].pc = "fetch" /\ req'[r].pc = "write"
                 /\ req[r].key = k
                 /\ precomputed'[k] = req'[r].data
                 /\ req'[r].data.url = req[r].url
            \/ \E p \in Runs :
                 /\ run[p].pc = "fetch" /\ run'[p].pc = "write"
                 /\ PRECOMP_ENDPOINTS[run[p].i] = k
                 /\ precomputed'[k] = run'[p].data
                 /\ run'[p].data.url = PrecomputeUrl(k)]_vars

C26_CacheContent == []C26_State /\ C26_Provenance

\* a computation for a key has failed and was answered with an error
\* payload, while another result for the same key is cached
C26_Witness ==
  \E r \in Reqs :
    /\ req[r].pc = "done" /\ req[r].branch = "error" /\ req[r].fetches = 1
    /\ req[r].status = 502
    /\ precomputed[req[r].key] # None
    /\ precomputed[req[r].key] # req[r].body

\* C27: every attempt of a retry helper is raced against a timer, so a call
\* of the helper ends (it returns or throws), even when the remote call of
\* an attempt never settles; this for each retry helper of the program.
C27_RetryTerminates == <>(rt.pc \in {"returned", "threw"})

\* C28: an in-memory entry a request handler wrote while the startup
\* loadCacheFromDisk is running is never afterwards replaced by the value
\* the loader reads from disk for the same key: a step of the loader leaves
\* the entry of every key a handler has stored since startup as it is.
C28_LoaderKeepsNewer ==
  [][ld'.log # ld.log
       => \A k \in stored : precomputed'[k] = precomputed[k]]_vars

\* C29: tier consistency at quiescence.  When no call of saveCacheToDisk is
\* in progress, no load has taken place and no disk operation has failed,
\* the persisted file of every key in memory holds the in-memory value,
\* also after two overlapping writers of the same key have both finished.
C29_TiersAgree ==
  (/\ \A s \in Savers : sv[s].pc = "idle"
   /\ ld.pc = "off"
   /\ ~diskErr)
  => \A k \in Keys : precomputed[k] # None => disk[k] = precomputed[k]

====
